---- MODULE Spec2Model ----
(***************************************************************************)
(* A model of scripts/build.py of suffolk-village-signs: the photo loader, *)
(* the deduplicator, the gazetteer matcher and the build pipeline with its *)
(* file output.                                                            *)
(*                                                                         *)
(* Conventions of the model                                                *)
(*  - A file name is the sequence of the character codes of its text, so   *)
(*    that Path.suffix, Path.stem, str.lower and sorted() are computed.    *)
(*  - Every point lies on one meridian: coords = <<lat, lon>> with lat the *)
(*    signed arc length in metres and lon = 0, and geodesic(a, b) is the   *)
(*    arc between them in whole metres.  `.meters <= 50` and `.km <= 1.5`  *)
(*    are comparisons of that one length.                                  *)
(*  - A capture time is a natural number; datetime.min is 0, the time the  *)
(*    text "0001:01:01 00:00:00" parses to.                                *)
(*  - None is the empty sequence <<>>.                                     *)
(***************************************************************************)
EXTENDS Integers, Sequences, FiniteSets, TLC

VARIABLES
    pc,             \* position in the function being run
    directory,      \* PHOTOS_IN: [exists, files]
    listing,        \* load_photos: sorted(directory.iterdir())
    i,              \* index of the loop in progress
    raw,            \* load_photos: the list `photos` it builds / build: `raw`
    clusters,       \* deduplicate: the list of clusters
    photos,         \* deduplicate's result / build: `photos`
    coords,         \* nearest_settlement: its argument `coords`
    settlements,    \* the gazetteer
    best,           \* nearest_settlement: <<>> or <<settlement>>
    best_dist,      \* nearest_settlement: <<>> for float("inf"), or <<d>>
    result,         \* nearest_settlement: the value returned
    refresh,        \* build's argument refresh_settlements
    cache_exists,   \* SETTLEMENTS_FILE.exists() when the run starts
    visited_names,  \* build: the set of claimed settlement names
    visited,        \* build: the list of VisitedEntry
    unvisited,      \* build: the list of UnvisitedEntry
    stats,          \* build: data["stats"], <<>> before it is computed
    saves,          \* the calls of save_web_photo so far: [file, img]
    photos_out,     \* the files of PHOTOS_OUT written by this run: [file, img]
    written,        \* the other files written by this run
    fetches,        \* the responses to the requests.post calls of this run
    error           \* the exception that ended the run, "" if none

vars == <<pc, directory, listing, i, raw, clusters, photos, coords, settlements, best,
          best_dist, result, refresh, cache_exists, visited_names, visited,
          unvisited, stats, saves, photos_out, written, fetches, error>>

\* ---------------------------------------------------------------- bounds

MaxFiles == 3           \* files of a directory given to load_photos
MaxPhotos == 3          \* photos given to deduplicate
MaxSettlements == 3     \* settlements given to nearest_settlement
MaxBuildFiles == 2      \* files of PHOTOS_IN in a build
MaxGazetteer == 2       \* settlements of the gazetteer in a build

\* ------------------------------------------------------------- constants

DEDUP_RADIUS_M == 50
MATCH_RADIUS_M == 1500  \* MATCH_RADIUS_KM = 1.5, in metres
datetime_min == 0
None == <<>>

\* ------------------------------------------------------------- utilities

Abs(x) == IF x < 0 THEN -x ELSE x

SetMax(S) == CHOOSE x \in S : \A y \in S : y <= x

Range(s) == {s[k] : k \in 1..Len(s)}

\* The sequences over S of length at most n.
SeqsUpTo(S, n) == UNION {[1..k -> S] : k \in 0..n}

\* Those of them that list no element twice.
DistinctSeqsUpTo(S, n) ==
    {q \in SeqsUpTo(S, n) : \A a, b \in 1..Len(q) : a # b => q[a] # q[b]}

\* str < str: lexicographic order of the character codes.
StrLess(a, b) ==
    \E k \in 1..(Len(a) + 1) :
        /\ k <= Len(b)
        /\ \A m \in 1..(k - 1) : a[m] = b[m]
        /\ (k > Len(a) \/ a[k] < b[k])

\* str.lower() on ASCII text.
lower(s) == [k \in 1..Len(s) |-> IF s[k] >= 65 /\ s[k] <= 90 THEN s[k] + 32 ELSE s[k]]

\* The place of the last "." of a name, 0 when it has none (str.rfind + 1).
rfind_dot(name) ==
    LET D == {k \in 1..Len(name) : name[k] = 46}
    IN  IF D = {} THEN 0 ELSE SetMax(D)

\* Path.suffix: from the last dot, unless the dot starts or ends the name.
suffix(name) ==
    LET d == rfind_dot(name)
    IN  IF 1 < d /\ d < Len(name) THEN SubSeq(name, d, Len(name)) ELSE <<>>

\* Path.stem: the name without its suffix.
stem(name) ==
    LET d == rfind_dot(name)
    IN  IF 1 < d /\ d < Len(name) THEN SubSeq(name, 1, d - 1) ELSE name

\* geodesic(a, b), in metres, of two points of the meridian.
geodesic(a, b) == Abs(a[1] - b[1])

\* ------------------------------------------------------------ EXIF helpers

\* _dms_to_decimal: the magnitude, negated for the references S and W.
dms_to_decimal(dms, ref) == IF ref \in {"S", "W"} THEN -dms ELSE dms

\* The outcome of a call: a value returned or an exception raised.
Return(v) == [raised |-> FALSE, value |-> v]
Raise == [raised |-> TRUE, value |-> 0]

\* extract_gps: (lat, lon), or None for an absent or malformed GPS block; an
\* exception other than KeyError, TypeError, ZeroDivisionError leaves it.
extract_gps(img) ==
    CASE img.gps.kind = "error" -> Raise
      [] img.gps.kind \in {"absent", "malformed"} -> Return(None)
      [] OTHER -> Return(<<dms_to_decimal(img.gps.lat, img.gps.ref), 0>>)

\* datetime.strptime on one tag value: Return(t); Raise for a value that is not
\* text (TypeError, which extract_datetime does not catch).  A "garbled" text
\* makes it raise ValueError, which extract_datetime catches: see first_date.
strptime(val) == IF val.kind = "stamp" THEN Return(val.t) ELSE Raise

\* extract_datetime: the first of DateTimeOriginal, DateTimeDigitized, DateTime
\* that is present and parses, else datetime.min.
RECURSIVE first_date(_, _)
first_date(tags, k) ==
    IF k > Len(tags) THEN Return(datetime_min)
    ELSE IF tags[k].kind = "absent" THEN first_date(tags, k + 1)
    ELSE IF tags[k].kind = "garbled" THEN first_date(tags, k + 1)
    ELSE strptime(tags[k])

extract_datetime(img) == first_date(img.dates, 1)

\* ---------------------------------------------------------- photo loading

\* ".heic", ".heif", ".jpg", ".jpeg", ".png"
SUPPORTED == { <<46, 104, 101, 105, 99>>, <<46, 104, 101, 105, 102>>,
               <<46, 106, 112, 103>>, <<46, 106, 112, 101, 103>>,
               <<46, 112, 110, 103>> }

\* sorted(directory.iterdir()): the files in increasing order of name.
RECURSIVE sorted(_)
sorted(files) ==
    IF files = {} THEN <<>>
    ELSE LET f == CHOOSE x \in files :
                      \A y \in files \ {x} : StrLess(x.name, y.name)
         IN  <<f>> \o sorted(files \ {f})

\* load_outcome with the suffix compared as written, without .lower().
load_outcome_case_sensitive(file) ==
    IF suffix(file.name) \notin SUPPORTED THEN "skip_ext"
    ELSE IF ~file.img.decodes THEN "error"
    ELSE IF extract_gps(file.img).raised THEN "error"
    ELSE IF extract_gps(file.img).value = None THEN "no_gps"
    ELSE IF extract_datetime(file.img).raised THEN "error"
    ELSE "append"

\* What the body of load_photos' loop does with one file: "skip_ext" (not a
\* supported suffix), "error" (an exception, caught), "no_gps", or "append".
load_outcome(file) ==
    IF lower(suffix(file.name)) \notin SUPPORTED THEN "skip_ext"
    ELSE IF ~file.img.decodes THEN "error"
    ELSE IF extract_gps(file.img).raised THEN "error"
    ELSE IF extract_gps(file.img).value = None THEN "no_gps"
    ELSE IF extract_datetime(file.img).raised THEN "error"
    ELSE "append"

\* The record load_photos appends for a file.
photo_record(file) ==
    [path |-> file.name, img |-> file.img,
     coords |-> extract_gps(file.img).value,
     datetime |-> extract_datetime(file.img).value]

\* One pass of load_photos' loop.
load_one(acc, file) ==
    IF load_outcome(file) = "append" THEN Append(acc, photo_record(file))
    ELSE acc

RECURSIVE load_fold(_, _, _)
load_fold(acc, lst, k) ==
    IF k > Len(lst) THEN acc
    ELSE load_fold(load_one(acc, lst[k]), lst, k + 1)

load_photos(dir) ==
    IF ~dir.exists THEN <<>> ELSE load_fold(<<>>, sorted(dir.files), 1)

\* ----------------------------------------------------------- deduplicate

\* near_rep with the boundary left out.
near_rep_strict(photo, cluster) ==
    geodesic(photo.coords, cluster[1].coords) < DEDUP_RADIUS_M

\* near_rep against the cluster's last member instead of its first.
near_rep_last(photo, cluster) ==
    geodesic(photo.coords, cluster[Len(cluster)].coords) <= DEDUP_RADIUS_M

\* Line 135: the photo is within DEDUP_RADIUS_M of the cluster's first member.
near_rep(photo, cluster) ==
    geodesic(photo.coords, cluster[1].coords) <= DEDUP_RADIUS_M

\* Lines 132-140, one pass of the loop: the photo joins the first cluster it
\* is near, or starts a cluster.
place(cls, photo) ==
    LET fit == {k \in 1..Len(cls) : near_rep(photo, cls[k])}
    IN  IF fit = {} THEN Append(cls, <<photo>>)
        ELSE LET k == CHOOSE x \in fit : \A y \in fit : x <= y
             IN  [cls EXCEPT ![k] = Append(@, photo)]

\* max(c, key=lambda p: p["datetime"]): the first member no later member
\* exceeds.
RECURSIVE max_fold(_, _, _)
max_fold(c, k, top) ==
    IF k > Len(c) THEN top
    ELSE max_fold(c, k + 1, IF c[k].datetime > top.datetime THEN c[k] ELSE top)

latest(c) == max_fold(c, 2, c[1])

\* Line 142.
representatives(cls) == [k \in 1..Len(cls) |-> latest(cls[k])]

RECURSIVE place_fold(_, _, _)
place_fold(cls, lst, k) ==
    IF k > Len(lst) THEN cls ELSE place_fold(place(cls, lst[k]), lst, k + 1)

deduplicate(lst) == representatives(place_fold(<<>>, lst, 1))

\* ----------------------------------------------------- nearest_settlement

\* Line 195: the distance from the point to a settlement.
dist_to(pt, s) == geodesic(pt, <<s.lat, s.lon>>)

\* closer that also takes an equal distance.
closer_or_equal(d, bd) == IF bd = <<>> THEN TRUE ELSE d <= bd[1]

\* Line 196: d < best_dist, where <<>> stands for float("inf").
closer(d, bd) == IF bd = <<>> THEN TRUE ELSE d < bd[1]

\* Lines 198-200: the value returned for the scan's final best, best_dist.
match_result(b, bd) ==
    IF bd = <<>> THEN [settlement |-> None, dist |-> None]
    ELSE IF bd[1] <= MATCH_RADIUS_M THEN [settlement |-> b, dist |-> bd]
    ELSE [settlement |-> None, dist |-> None]

RECURSIVE scan_fold(_, _, _, _, _)
scan_fold(pt, lst, k, b, bd) ==
    IF k > Len(lst) THEN match_result(b, bd)
    ELSE IF closer(dist_to(pt, lst[k]), bd)
         THEN scan_fold(pt, lst, k + 1, <<lst[k]>>, <<dist_to(pt, lst[k])>>)
         ELSE scan_fold(pt, lst, k + 1, b, bd)

nearest_settlement(pt, lst) == scan_fold(pt, lst, 1, <<>>, <<>>)

\* ------------------------------------------------------- settlement data

\* fetch_settlements lines 164-173 on the elements of a response: the named
\* elements, in order; KeyError when a named element has no lat or lon.
RECURSIVE parse_elements(_, _, _)
parse_elements(elements, k, acc) ==
    IF k > Len(elements) THEN Return(acc)
    ELSE IF elements[k].name = "" THEN parse_elements(elements, k + 1, acc)
    ELSE IF ~elements[k].has_latlon THEN Raise
    ELSE parse_elements(elements, k + 1,
             Append(acc, [name |-> elements[k].name, lat |-> elements[k].lat,
                          lon |-> elements[k].lon, place |-> elements[k].place]))

\* fetch_settlements with the cache file opened before the elements are read.
fetch_settlements_cache_first(resp) ==
    IF resp.status # "ok"
    THEN [error |-> resp.status, settlements |-> <<>>, wrote_cache |-> FALSE]
    ELSE IF parse_elements(resp.elements, 1, <<>>).raised
    THEN [error |-> "KeyError", settlements |-> <<>>, wrote_cache |-> TRUE]
    ELSE [error |-> "", wrote_cache |-> TRUE,
          settlements |-> parse_elements(resp.elements, 1, <<>>).value]

\* fetch_settlements on the response to its request: the exception it raises
\* ("" for none), the settlements it returns and whether it wrote
\* SETTLEMENTS_FILE.  requests.post, raise_for_status, resp.json() and
\* ["elements"] raise before anything is read.
fetch_settlements(resp) ==
    IF resp.status # "ok"
    THEN [error |-> resp.status, settlements |-> <<>>, wrote_cache |-> FALSE]
    ELSE IF parse_elements(resp.elements, 1, <<>>).raised
    THEN [error |-> "KeyError", settlements |-> <<>>, wrote_cache |-> FALSE]
    ELSE [error |-> "", wrote_cache |-> TRUE,
          settlements |-> parse_elements(resp.elements, 1, <<>>).value]

\* load_settlements line 183: the cache is read instead of fetching.
use_cache(refresh_flag, exists) == ~refresh_flag /\ exists

\* ------------------------------------------------------ the resolver loop

\* ".jpg" and "photos/"
DotJpg == <<46, 106, 112, 103>>
PhotosPrefix == <<112, 104, 111, 116, 111, 115, 47>>

\* Line 245.
out_name(photo) == stem(photo.path) \o DotJpg

\* Lines 248-255: the VisitedEntry of a photo that claims settlement `name`.
\* The date text is the photo's day, None for datetime.min.
visited_entry(name, photo) ==
    [name |-> name, lat |-> photo.coords[1], lon |-> photo.coords[2],
     photo |-> PhotosPrefix \o out_name(photo),
     date |-> IF photo.datetime # datetime_min THEN <<photo.datetime>> ELSE None]

\* resolve_outcome without the test of line 239.
resolve_outcome_no_dup_check(photo, gaz, names) ==
    IF nearest_settlement(photo.coords, gaz).settlement = None THEN "no_match"
    ELSE "claim"

\* Lines 233-243: what the pass does with a photo: "no_match", "dup_match"
\* or "claim".
resolve_outcome(photo, gaz, names) ==
    IF nearest_settlement(photo.coords, gaz).settlement = None THEN "no_match"
    ELSE IF nearest_settlement(photo.coords, gaz).settlement[1].name \in names
    THEN "dup_match"
    ELSE "claim"

\* save_web_photo(photo["img"], PHOTOS_OUT / out_name): the call is logged and
\* the file of that name holds the photo's image, named here by its source.
save_web_photo(st, photo) ==
    [st EXCEPT !.saves = Append(@, [file |-> out_name(photo), img |-> photo.path]),
               !.photos_out = {f \in @ : f.file # out_name(photo)}
                               \cup {[file |-> out_name(photo), img |-> photo.path]}]

\* resolve_one with the photo saved before the test of line 239.
resolve_one_save_first(st, photo, gaz) ==
    IF resolve_outcome(photo, gaz, st.visited_names) = "no_match" THEN st
    ELSE IF resolve_outcome(photo, gaz, st.visited_names) = "dup_match"
    THEN save_web_photo(st, photo)
    ELSE LET name == nearest_settlement(photo.coords, gaz).settlement[1].name
         IN  [save_web_photo(st, photo) EXCEPT
                  !.visited_names = @ \cup {name},
                  !.visited = Append(@, visited_entry(name, photo))]

\* One pass of the loop of lines 232-256 on the state
\* [visited_names, visited, saves, photos_out].
resolve_one(st, photo, gaz) ==
    IF resolve_outcome(photo, gaz, st.visited_names) # "claim" THEN st
    ELSE LET name == nearest_settlement(photo.coords, gaz).settlement[1].name
         IN  [save_web_photo(st, photo) EXCEPT
                  !.visited_names = @ \cup {name},
                  !.visited = Append(@, visited_entry(name, photo))]

\* Lines 260-269: the settlements whose name was not claimed.
RECURSIVE unvisited_of(_, _, _)
unvisited_of(gaz, names, k) ==
    IF k > Len(gaz) THEN <<>>
    ELSE IF gaz[k].name \notin names
         THEN <<[name |-> gaz[k].name, lat |-> gaz[k].lat, lon |-> gaz[k].lon]>>
              \o unvisited_of(gaz, names, k + 1)
         ELSE unvisited_of(gaz, names, k + 1)

\* ------------------------------------------------ load_photos, step by step

\* The values of the variables a specification does not use.
IdleLoad == /\ directory = [exists |-> FALSE, files |-> {}] /\ raw = <<>>
IdleDedup == clusters = <<>> /\ photos = <<>>
IdleMatch == /\ coords = <<0, 0>> /\ best = <<>> /\ best_dist = <<>>
             /\ result = <<>>
IdleBuild == /\ refresh = FALSE /\ cache_exists = FALSE /\ visited_names = {}
             /\ visited = <<>> /\ unvisited = <<>> /\ stats = <<>>
             /\ saves = <<>> /\ photos_out = {} /\ written = {}
             /\ fetches = <<>> /\ error = ""

BuildVars == <<refresh, cache_exists, visited_names, visited, unvisited, stats,
               saves, photos_out, written, fetches, error>>
MatchVars == <<coords, best, best_dist, result>>

\* Tag values and GPS blocks of an image's EXIF data.
Absent == [kind |-> "absent", t |-> 0]
Garbled == [kind |-> "garbled", t |-> 0]
NonText == [kind |-> "nontext", t |-> 0]
Stamp(t) == [kind |-> "stamp", t |-> t]
NoDates == <<Absent, Absent, Absent>>
Gps(kind) == [kind |-> kind, lat |-> 0, ref |-> "N"]
Dms(lat, ref) == [kind |-> "dms", lat |-> lat, ref |-> ref]

\* "a.heic", "a.JPG", "b.Jpeg", "b.png", "c.HEIF", "c.txt", ".jpg"
LoadNames == { <<97, 46, 104, 101, 105, 99>>, <<97, 46, 74, 80, 71>>,
               <<98, 46, 74, 112, 101, 103>>, <<98, 46, 112, 110, 103>>,
               <<99, 46, 72, 69, 73, 70>>, <<99, 46, 116, 120, 116>>,
               <<46, 106, 112, 103>> }

\* The images of the files given to load_photos: one that does not open, one
\* without a GPS block, one with a malformed block, one whose EXIF access
\* raises, one whose date tag is not text, and two that load.
LoadImages ==
    { [decodes |-> FALSE, gps |-> Dms(0, "N"), dates |-> NoDates],
      [decodes |-> TRUE, gps |-> Gps("absent"), dates |-> NoDates],
      [decodes |-> TRUE, gps |-> Gps("malformed"), dates |-> NoDates],
      [decodes |-> TRUE, gps |-> Gps("error"), dates |-> NoDates],
      [decodes |-> TRUE, gps |-> Dms(0, "N"), dates |-> <<Garbled, NonText, Stamp(1)>>],
      [decodes |-> TRUE, gps |-> Dms(0, "N"), dates |-> NoDates],
      [decodes |-> TRUE, gps |-> Dms(50, "S"), dates |-> <<Garbled, Absent, Stamp(1)>>] }

\* The directories over given names and images: at most n files, no two of
\* one name.
Directories(names, images, n) ==
    { [exists |-> TRUE, files |-> {[name |-> nm, img |-> im[nm]] : nm \in N}] :
        <<N, im>> \in UNION { {N} \X [N -> images] :
                  N \in {M \in SUBSET names : Cardinality(M) <= n} } }
      \* The pair <<N, im>>: the names present and the image of each.

InitLoad ==
    /\ pc = "load"
    /\ directory \in Directories(LoadNames, LoadImages, MaxFiles)
                     \cup {[exists |-> FALSE, files |-> {}]}
    /\ listing = <<>>
    /\ i = 1
    /\ raw = <<>>
    /\ settlements = <<>>
    /\ IdleDedup /\ IdleMatch /\ IdleBuild

\* load_photos line 104: the directory does not exist.
LoadMissing ==
    /\ pc = "load" /\ ~directory.exists
    /\ pc' = "loaded"
    /\ UNCHANGED <<directory, listing, i, raw, clusters, photos, settlements>>
    /\ UNCHANGED MatchVars /\ UNCHANGED BuildVars

\* Line 107: the loop starts on sorted(directory.iterdir()).
LoadList ==
    /\ pc = "load" /\ directory.exists
    /\ listing' = sorted(directory.files)
    /\ pc' = "load_loop"
    /\ UNCHANGED <<directory, i, raw, clusters, photos, settlements>>
    /\ UNCHANGED MatchVars /\ UNCHANGED BuildVars

\* The loop is at a file whose pass ends in `outcome`.
LoadAt(outcome) ==
    /\ pc = "load_loop"
    /\ i <= Len(listing)
    /\ load_outcome(listing[i]) = outcome

\* Lines 108-109: not a supported suffix.
LoadSkipExt ==
    /\ LoadAt("skip_ext")
    /\ i' = i + 1
    /\ UNCHANGED <<pc, directory, listing, raw, clusters, photos, settlements>>
    /\ UNCHANGED MatchVars /\ UNCHANGED BuildVars

\* Lines 122-123: Image.open, extract_gps or extract_datetime raised.
LoadError ==
    /\ LoadAt("error")
    /\ i' = i + 1
    /\ UNCHANGED <<pc, directory, listing, raw, clusters, photos, settlements>>
    /\ UNCHANGED MatchVars /\ UNCHANGED BuildVars

\* Lines 113-115: no coordinates.
LoadNoGps ==
    /\ LoadAt("no_gps")
    /\ i' = i + 1
    /\ UNCHANGED <<pc, directory, listing, raw, clusters, photos, settlements>>
    /\ UNCHANGED MatchVars /\ UNCHANGED BuildVars

\* Lines 116-121: the photo is appended.
LoadAppend ==
    /\ LoadAt("append")
    /\ raw' = Append(raw, photo_record(listing[i]))
    /\ i' = i + 1
    /\ UNCHANGED <<pc, directory, listing, clusters, photos, settlements>>
    /\ UNCHANGED MatchVars /\ UNCHANGED BuildVars

\* Line 125: the loop is over.
LoadReturn ==
    /\ pc = "load_loop"
    /\ i > Len(listing)
    /\ pc' = "loaded"
    /\ UNCHANGED <<directory, listing, i, raw, clusters, photos, settlements>>
    /\ UNCHANGED MatchVars /\ UNCHANGED BuildVars

NextLoad == LoadMissing \/ LoadList \/ LoadSkipExt \/ LoadError \/ LoadNoGps \/ LoadAppend
            \/ LoadReturn

SpecLoad == InitLoad /\ [][NextLoad]_vars

\* ------------------------------------------------ deduplicate, step by step

\* "a.jpg", "b.jpg", ...: the k-th name.
PhotoName(k) == <<96 + k, 46, 106, 112, 103>>

\* The images of the photos given to deduplicate: at 50 m south, at the
\* origin, at 50 m and at 51 m north; undated, or dated 0, 1 or 2.
DedupImages ==
    { [decodes |-> TRUE, gps |-> g, dates |-> d] :
        g \in {Dms(50, "S"), Dms(0, "N"), Dms(50, "N"), Dms(51, "N")},
        d \in {NoDates, <<Stamp(0), Absent, Absent>>, <<Absent, Stamp(1), Stamp(2)>>,
               <<Garbled, Stamp(2), Stamp(1)>>} }

InitDedup ==
    /\ pc = "dedup"
    /\ \E d \in Directories({PhotoName(k) : k \in 1..MaxPhotos}, DedupImages,
                            MaxPhotos) :
           raw = load_photos(d)
    /\ i = 1
    /\ clusters = <<>>
    /\ photos = <<>>
    /\ directory = [exists |-> FALSE, files |-> {}]
    /\ listing = <<>>
    /\ settlements = <<>>
    /\ IdleMatch /\ IdleBuild

\* Lines 133-138: the photo joins an existing cluster.
DedupJoin ==
    /\ pc = "dedup"
    /\ i <= Len(raw)
    /\ \E k \in 1..Len(clusters) : near_rep(raw[i], clusters[k])
    /\ clusters' = place(clusters, raw[i])
    /\ i' = i + 1
    /\ UNCHANGED <<pc, directory, listing, raw, photos, settlements>>
    /\ UNCHANGED MatchVars /\ UNCHANGED BuildVars

\* Lines 139-140: the photo starts a cluster.
DedupNew ==
    /\ pc = "dedup"
    /\ i <= Len(raw)
    /\ \A k \in 1..Len(clusters) : ~near_rep(raw[i], clusters[k])
    /\ clusters' = place(clusters, raw[i])
    /\ i' = i + 1
    /\ UNCHANGED <<pc, directory, listing, raw, photos, settlements>>
    /\ UNCHANGED MatchVars /\ UNCHANGED BuildVars

\* Line 142: one representative per cluster is returned.
DedupReturn ==
    /\ pc = "dedup"
    /\ i > Len(raw)
    /\ photos' = representatives(clusters)
    /\ pc' = "deduped"
    /\ UNCHANGED <<directory, listing, i, raw, clusters, settlements>>
    /\ UNCHANGED MatchVars /\ UNCHANGED BuildVars

NextDedup == DedupJoin \/ DedupNew \/ DedupReturn

SpecDedup == InitDedup /\ [][NextDedup]_vars

\* ----------------------------------------- nearest_settlement, step by step

Settlement(name, lat) == [name |-> name, lat |-> lat, lon |-> 0, place |-> "village"]

\* The settlements and the points given to nearest_settlement.
MatchSettlements ==
    {Settlement(n, lat) : n \in {"Acton", "Boxford"}, lat \in {-1500, 0, 3000, 3001}}
MatchPoints == {<<0, 0>>, <<1500, 0>>, <<1501, 0>>}

InitMatch ==
    /\ pc = "scan"
    /\ coords \in MatchPoints
    /\ settlements \in SeqsUpTo(MatchSettlements, MaxSettlements)
    /\ i = 1
    /\ best = <<>>
    /\ best_dist = <<>>
    /\ result = <<>>
    /\ listing = <<>>
    /\ IdleLoad /\ IdleDedup /\ IdleBuild

\* Lines 196-197: the settlement is closer than the best so far.
ScanCloser ==
    /\ pc = "scan"
    /\ i <= Len(settlements)
    /\ closer(dist_to(coords, settlements[i]), best_dist)
    /\ best' = <<settlements[i]>>
    /\ best_dist' = <<dist_to(coords, settlements[i])>>
    /\ i' = i + 1
    /\ UNCHANGED <<pc, directory, listing, raw, clusters, photos, coords,
                   settlements, result>>
    /\ UNCHANGED BuildVars

\* Line 196, condition false: the best so far stays.
ScanKeep ==
    /\ pc = "scan"
    /\ i <= Len(settlements)
    /\ ~closer(dist_to(coords, settlements[i]), best_dist)
    /\ i' = i + 1
    /\ UNCHANGED <<pc, directory, listing, raw, clusters, photos, settlements>>
    /\ UNCHANGED MatchVars /\ UNCHANGED BuildVars

\* Lines 198-199: the best is within the radius.
ScanMatch ==
    /\ pc = "scan"
    /\ i > Len(settlements)
    /\ match_result(best, best_dist).settlement # None
    /\ result' = match_result(best, best_dist)
    /\ pc' = "matched"
    /\ UNCHANGED <<directory, listing, i, raw, clusters, photos, coords,
                   settlements, best, best_dist>>
    /\ UNCHANGED BuildVars

\* Line 200: (None, None).
ScanNoMatch ==
    /\ pc = "scan"
    /\ i > Len(settlements)
    /\ match_result(best, best_dist).settlement = None
    /\ result' = match_result(best, best_dist)
    /\ pc' = "matched"
    /\ UNCHANGED <<directory, listing, i, raw, clusters, photos, coords,
                   settlements, best, best_dist>>
    /\ UNCHANGED BuildVars

NextMatch == ScanCloser \/ ScanKeep \/ ScanMatch \/ ScanNoMatch

SpecMatch == InitMatch /\ [][NextMatch]_vars

\* ------------------------------------------------------------------ build

\* "a.heic", "a.jpg", "b.jpg"
BuildNames == { <<97, 46, 104, 101, 105, 99>>, <<97, 46, 106, 112, 103>>,
                <<98, 46, 106, 112, 103>> }

\* The images of PHOTOS_IN in a build: at the origin, 20 m, 100 m and 3000 m
\* north of it, and one without a GPS block.
BuildImages ==
    { [decodes |-> TRUE, gps |-> Dms(0, "N"), dates |-> NoDates],
      [decodes |-> TRUE, gps |-> Dms(20, "N"), dates |-> <<Stamp(2), Absent, Absent>>],
      [decodes |-> TRUE, gps |-> Dms(100, "N"), dates |-> <<Stamp(1), Absent, Absent>>],
      [decodes |-> TRUE, gps |-> Dms(3000, "N"), dates |-> <<Stamp(1), Absent, Absent>>],
      [decodes |-> TRUE, gps |-> Gps("absent"), dates |-> NoDates] }

\* The gazetteers of a build: the cache file's content, or what a fetch
\* yields.  No node is listed twice; two nodes may bear one name.
BuildSettlements ==
    {Settlement(n, lat) : n \in {"Acton", "Boxford"}, lat \in {0, 3000}}
Gazetteers == DistinctSeqsUpTo(BuildSettlements, MaxGazetteer)

\* The elements of a response: the settlements, a node without a name tag and
\* a named element without lat and lon.
Element(s) == [name |-> s.name, has_latlon |-> TRUE, lat |-> s.lat, lon |-> s.lon,
               place |-> s.place]
Elements ==
    {Element(s) : s \in BuildSettlements}
    \cup {[name |-> "", has_latlon |-> FALSE, lat |-> 0, lon |-> 0, place |-> "village"],
          [name |-> "Acton", has_latlon |-> FALSE, lat |-> 0, lon |-> 0, place |-> ""]}

\* What the request can come to: requests.post raising, a non-2xx status, a
\* body that is not JSON, JSON without "elements", or a list of elements.
Responses ==
    {[status |-> e, elements |-> <<>>] :
        e \in {"ConnectionError", "HTTPError", "JSONDecodeError", "KeyError"}}
    \cup {[status |-> "ok", elements |-> els] :
              els \in DistinctSeqsUpTo(Elements, MaxGazetteer)}

Init ==
    /\ pc = "build"
    /\ directory \in Directories(BuildNames, BuildImages, MaxBuildFiles)
                     \cup {[exists |-> FALSE, files |-> {}]}
    /\ refresh \in BOOLEAN
    /\ cache_exists \in BOOLEAN
    /\ listing = <<>>
    /\ i = 1
    /\ raw = <<>>
    /\ settlements = <<>>
    /\ visited_names = {} /\ visited = <<>> /\ unvisited = <<>> /\ stats = <<>>
    /\ saves = <<>> /\ photos_out = {} /\ written = {}
    /\ fetches = <<>> /\ error = ""
    /\ IdleDedup /\ IdleMatch

\* Lines 214-221: PHOTOS_IN is loaded and deduplicated.
BuildPhotos ==
    /\ pc = "build"
    /\ raw' = load_photos(directory)
    /\ photos' = deduplicate(load_photos(directory))
    /\ pc' = "settlements"
    /\ UNCHANGED <<directory, listing, i, clusters, settlements>>
    /\ UNCHANGED MatchVars /\ UNCHANGED BuildVars

\* Lines 183-186: the gazetteer is read from the cache file.
LoadCached ==
    /\ pc = "settlements"
    /\ use_cache(refresh, cache_exists)
    /\ settlements' \in Gazetteers
    /\ pc' = "resolve"
    /\ UNCHANGED <<directory, listing, i, raw, clusters, photos>>
    /\ UNCHANGED MatchVars /\ UNCHANGED BuildVars

\* Line 187, fetch_settlements returns: the cache file is written.
FetchOk ==
    /\ pc = "settlements"
    /\ ~use_cache(refresh, cache_exists)
    /\ \E resp \in Responses :
        /\ fetch_settlements(resp).error = ""
        /\ fetches' = Append(fetches, resp)
        /\ settlements' = fetch_settlements(resp).settlements
        /\ written' = IF fetch_settlements(resp).wrote_cache
                      THEN written \cup {"settlements.json"} ELSE written
    /\ pc' = "resolve"
    /\ UNCHANGED <<directory, listing, i, raw, clusters, photos, refresh,
                   cache_exists, visited_names, visited, unvisited, stats, saves,
                   photos_out, error>>
    /\ UNCHANGED MatchVars

\* Line 187, fetch_settlements raises: build raises it to its caller.
FetchFail ==
    /\ pc = "settlements"
    /\ ~use_cache(refresh, cache_exists)
    /\ \E resp \in Responses :
        /\ fetch_settlements(resp).error # ""
        /\ fetches' = Append(fetches, resp)
        /\ error' = fetch_settlements(resp).error
        /\ written' = IF fetch_settlements(resp).wrote_cache
                      THEN written \cup {"settlements.json"} ELSE written
    /\ pc' = "aborted"
    /\ UNCHANGED <<directory, listing, i, raw, clusters, photos, settlements,
                   refresh, cache_exists, visited_names, visited, unvisited, stats,
                   saves, photos_out>>
    /\ UNCHANGED MatchVars

\* The resolver's state, and the loop at a photo whose pass ends in `outcome`.
resolver == [visited_names |-> visited_names, visited |-> visited,
             saves |-> saves, photos_out |-> photos_out]

ResolveAt(outcome) ==
    /\ pc = "resolve"
    /\ i <= Len(photos)
    /\ resolve_outcome(photos[i], settlements, visited_names) = outcome

ResolvePass ==
    /\ visited_names' = resolve_one(resolver, photos[i], settlements).visited_names
    /\ visited' = resolve_one(resolver, photos[i], settlements).visited
    /\ saves' = resolve_one(resolver, photos[i], settlements).saves
    /\ photos_out' = resolve_one(resolver, photos[i], settlements).photos_out
    /\ i' = i + 1
    /\ UNCHANGED <<pc, directory, listing, raw, clusters, photos, settlements,
                   refresh, cache_exists, unvisited, stats, written, fetches, error>>
    /\ UNCHANGED MatchVars

\* Lines 234-236: no settlement within the radius.
ResolveNoMatch == ResolveAt("no_match") /\ ResolvePass

\* Lines 239-242: the settlement is already claimed.
ResolveDupMatch == ResolveAt("dup_match") /\ ResolvePass

\* Lines 243-256: the photo claims the settlement.
ResolveClaim == ResolveAt("claim") /\ ResolvePass

\* Lines 258-280: the unvisited list and the stats.
BuildUnvisited ==
    /\ pc = "resolve"
    /\ i > Len(photos)
    /\ unvisited' = unvisited_of(settlements, visited_names, 1)
    /\ stats' = [visited |-> Len(visited),
                 total |-> Len(visited) + Len(unvisited_of(settlements, visited_names, 1))]
    /\ pc' = "write_data"
    /\ UNCHANGED <<directory, listing, i, raw, clusters, photos, settlements,
                   refresh, cache_exists, visited_names, visited, saves,
                   photos_out, written, fetches, error>>
    /\ UNCHANGED MatchVars

\* Lines 281-282: data.json is written.
WriteData ==
    /\ pc = "write_data"
    /\ written' = written \cup {"data.json"}
    /\ pc' = "write_csv"
    /\ UNCHANGED <<directory, listing, i, raw, clusters, photos, settlements,
                   refresh, cache_exists, visited_names, visited, unvisited, stats,
                   saves, photos_out, fetches, error>>
    /\ UNCHANGED MatchVars

\* Lines 285-291: unvisited.csv is written.
WriteCsv ==
    /\ pc = "write_csv"
    /\ written' = written \cup {"unvisited.csv"}
    /\ pc' = "done"
    /\ UNCHANGED <<directory, listing, i, raw, clusters, photos, settlements,
                   refresh, cache_exists, visited_names, visited, unvisited, stats,
                   saves, photos_out, fetches, error>>
    /\ UNCHANGED MatchVars

Next == BuildPhotos \/ LoadCached \/ FetchOk \/ FetchFail \/ ResolveNoMatch
        \/ ResolveDupMatch \/ ResolveClaim \/ BuildUnvisited \/ WriteData
        \/ WriteCsv

Spec == Init /\ [][Next]_vars

\* ======================================================== the properties

Within(a, b, r) == Abs(a.coords[1] - b.coords[1]) <= r

\* The place of a photo in deduplicate's input.
InputIndex(p) == CHOOSE j \in 1..Len(raw) : raw[j].path = p.path

\* The places <<k, m>> of the members of the clusters.
Members ==
    {km \in (1..Len(clusters)) \X (1..Len(raw)) : km[2] <= Len(clusters[km[1]])}

\* ------------------------------------------------------------------- C3

MatchDistances == {Abs(coords[1] - settlements[k].lat) : k \in 1..Len(settlements)}
MatchMin == CHOOSE d \in MatchDistances : \A e \in MatchDistances : d <= e
MatchFirst == CHOOSE k \in 1..Len(settlements) :
                  /\ Abs(coords[1] - settlements[k].lat) = MatchMin
                  /\ \A m \in 1..(k - 1) : Abs(coords[1] - settlements[m].lat) # MatchMin

\* C3: nearest_settlement returns the settlement at the smallest distance, the
\* first in gazetteer order among those tied for it, with that distance, if and
\* only if the smallest distance is at most 1500 m; otherwise, and for an empty
\* gazetteer, it returns (None, None).
C3_NearestWithinRadius ==
    pc = "matched" =>
        IF settlements = <<>> THEN result = [settlement |-> None, dist |-> None]
        ELSE IF MatchMin <= 1500
        THEN result = [settlement |-> <<settlements[MatchFirst]>>, dist |-> <<MatchMin>>]
        ELSE result = [settlement |-> None, dist |-> None]

\* Two settlements tied at exactly 1500 m: the first is returned.
C3_Witness ==
    /\ pc = "matched"
    /\ Len(settlements) >= 2
    /\ result.dist = <<1500>>
    /\ result.settlement = <<settlements[1]>>
    /\ \E k \in 2..Len(settlements) :
        /\ Abs(coords[1] - settlements[k].lat) = 1500
        /\ settlements[k] # settlements[1]

\* ------------------------------------------------------------------- C4

\* C4: deduplicate takes the photos in loader order; each photo is in the
\* first cluster, in creation order, whose first member is within 50 m of it
\* (the boundary included), or starts a cluster when there is none; one photo
\* per cluster is returned, in cluster order, so two photos more than 50 m
\* apart are both returned.
C4_FirstFitClusters ==
    pc \in {"dedup", "deduped"} =>
        /\ {clusters[km[1]][km[2]].path : km \in Members} = {raw[j].path : j \in 1..(i - 1)}
        /\ \A km \in Members :
            LET p == clusters[km[1]][km[2]]
            IN  /\ Within(p, clusters[km[1]][1], 50)
                /\ \A k2 \in 1..(km[1] - 1) : ~Within(p, clusters[k2][1], 50)
                /\ km[2] > 1 =>
                       InputIndex(clusters[km[1]][km[2] - 1]) < InputIndex(p)
                /\ (km[2] = 1 /\ km[1] > 1) =>
                       InputIndex(clusters[km[1] - 1][1]) < InputIndex(p)
        /\ pc = "deduped" =>
            /\ Len(photos) = Len(clusters)
            /\ \A k \in 1..Len(clusters) : photos[k] \in Range(clusters[k])
            /\ (Len(raw) = 2 /\ ~Within(raw[1], raw[2], 50)) => photos = raw

\* A chain: a photo joins the first of two clusters, 50 m from its first
\* member, although the second cluster's first member is nearer.
C4_Witness ==
    /\ pc = "deduped"
    /\ Len(clusters) = 2
    /\ Len(clusters[1]) = 2
    /\ Abs(clusters[1][2].coords[1] - clusters[1][1].coords[1]) = 50
    /\ Abs(clusters[1][2].coords[1] - clusters[2][1].coords[1]) < 50
    /\ InputIndex(clusters[2][1]) < InputIndex(clusters[1][2])

\* ------------------------------------------------------------------- C5

\* No date tag of the photo's image is present and parses.
UnknownTime(p) == \A k \in 1..Len(p.img.dates) : p.img.dates[k].kind # "stamp"

\* C5: the representative of a cluster has the maximum capture time of its
\* members and is the first member with it; a member with an unknown time is
\* the representative only when every member's time is unknown; so of three
\* photos at one point with times T1 < T2 < T3 the one with T3 is returned.
C5_LatestKnownWins ==
    pc = "deduped" =>
        \A k \in 1..Len(clusters) :
            /\ \E m \in 1..Len(clusters[k]) :
                /\ photos[k] = clusters[k][m]
                /\ \A n \in 1..Len(clusters[k]) :
                    /\ clusters[k][n].datetime <= photos[k].datetime
                    /\ clusters[k][n].datetime = photos[k].datetime => m <= n
            /\ UnknownTime(photos[k]) =>
                   \A n \in 1..Len(clusters[k]) : UnknownTime(clusters[k][n])

\* ------------------------------------------------------------------- C9

C9_Clusters ==
    pc \in {"dedup", "deduped"} =>
        /\ \A j \in 1..(i - 1) :
               Cardinality({km \in Members : clusters[km[1]][km[2]].path = raw[j].path}) = 1
        /\ \A k \in 1..Len(clusters) : Len(clusters[k]) >= 1
        /\ \A km \in Members : Within(clusters[km[1]][km[2]], clusters[km[1]][1], 50)
        /\ \A k1, k2 \in 1..Len(clusters) :
               k1 # k2 => ~Within(clusters[k1][1], clusters[k2][1], 50)

C9_FirstKept ==
    \A k \in 1..Len(clusters) :
        /\ k <= Len(clusters')
        /\ clusters'[k][1] = clusters[k][1]

\* C9: after every step of deduplicate's loop every photo processed so far is
\* in exactly one cluster, every cluster is non-empty, every member is within
\* 50 m of its cluster's first member, the first members of two clusters are
\* more than 50 m apart, and a cluster's first member never changes.
C9_ClusterInvariant == []C9_Clusters /\ [][C9_FirstKept]_vars

\* A photo started the second cluster although it is within 50 m of a member
\* of the first: it is more than 50 m from the first cluster's first member.
C9_Witness ==
    /\ pc = "dedup"
    /\ Len(clusters) = 2
    /\ Len(clusters[1]) = 2
    /\ Within(clusters[2][1], clusters[1][2], 50)
    /\ InputIndex(clusters[1][2]) < InputIndex(clusters[2][1])

\* ------------------------------------------------------------------- C8

\* The name ends in "." and the extension, letters of either case, after a
\* non-empty stem.
HasExtension(name, ext) ==
    /\ Len(name) > Len(ext) + 1
    /\ name[Len(name) - Len(ext)] = 46
    /\ \A k \in 1..Len(ext) :
           name[Len(name) - Len(ext) + k] \in {ext[k], ext[k] - 32}

\* "heic", "heif", "jpg", "jpeg", "png"
Extensions == { <<104, 101, 105, 99>>, <<104, 101, 105, 102>>, <<106, 112, 103>>,
                <<106, 112, 101, 103>>, <<112, 110, 103>> }

\* The file opens, has a well-formed GPS block and no date tag that makes
\* extract_datetime raise.
Loadable(f) ==
    /\ \E e \in Extensions : HasExtension(f.name, e)
    /\ f.img.decodes
    /\ f.img.gps.kind = "dms"
    /\ \A k \in 1..Len(f.img.dates) :
           f.img.dates[k].kind = "nontext" =>
               \E m \in 1..(k - 1) : f.img.dates[m].kind = "stamp"

\* C8: load_photos returns, in increasing order of file name, exactly the
\* files with a supported extension (in either case) that open and yield
\* coordinates without raising; the others are skipped, and a missing
\* directory yields the empty list.
C8_LoadsExactlyTheGood ==
    pc = "loaded" =>
        /\ {raw[k].path : k \in 1..Len(raw)} = {f.name : f \in {g \in directory.files : Loadable(g)}}
        /\ \A k \in 1..(Len(raw) - 1) : StrLess(raw[k].path, raw[k + 1].path)
        /\ \A k \in 1..Len(raw) :
               /\ [name |-> raw[k].path, img |-> raw[k].img] \in directory.files
               /\ raw[k].coords # None
        /\ ~directory.exists => raw = <<>>

\* "a.JPG" and a later file are loaded, and a file that does not open, with a
\* supported extension, sorts between them.
C8_Witness ==
    /\ pc = "loaded"
    /\ Len(raw) = 2
    /\ raw[1].path = <<97, 46, 74, 80, 71>>
    /\ \E f \in directory.files :
        /\ ~f.img.decodes
        /\ \E e \in Extensions : HasExtension(f.name, e)
        /\ StrLess(raw[1].path, f.name)
        /\ StrLess(f.name, raw[2].path)

\* ---------------------------------------------------- the build's claims

\* The settlement nearest_settlement returns for the k-th deduplicated photo.
Matched(k) == nearest_settlement(photos[k].coords, settlements).settlement

\* The first photo, in deduplicator output order, matched to a settlement of
\* that name.
Claimant(name) ==
    photos[CHOOSE k \in 1..Len(photos) :
               /\ Matched(k) # None
               /\ Matched(k)[1].name = name
               /\ \A m \in 1..(k - 1) : Matched(m) = None \/ Matched(m)[1].name # name]

Resolving == pc \in {"resolve", "write_data", "write_csv", "done"}

\* ------------------------------------------------------------------- C1

\* C1: after build finishes, for any gazetteer of N settlements, two of one
\* name included, len(visited) + len(unvisited) = N, the names of visited and
\* unvisited are disjoint, together they are the gazetteer's names, and
\* stats.total = N.
C1_Partition ==
    pc = "done" =>
        /\ Len(visited) + Len(unvisited) = Len(settlements)
        /\ {visited[k].name : k \in 1..Len(visited)}
               \cap {unvisited[k].name : k \in 1..Len(unvisited)} = {}
        /\ {visited[k].name : k \in 1..Len(visited)}
               \cup {unvisited[k].name : k \in 1..Len(unvisited)}
               = {settlements[k].name : k \in 1..Len(settlements)}
        /\ stats.total = Len(settlements)

\* ------------------------------------------------------------------- C2

C2_FirstClaims ==
    Resolving =>
        /\ \A a, b \in 1..Len(visited) : a # b => visited[a].name # visited[b].name
        /\ \A a \in 1..Len(visited) :
            \E k \in 1..(i - 1) :
                /\ Matched(k) # None
                /\ Matched(k)[1].name = visited[a].name
                /\ \A m \in 1..(k - 1) :
                       Matched(m) = None \/ Matched(m)[1].name # visited[a].name
                /\ visited[a].lat = photos[k].coords[1]
                /\ visited[a].lon = photos[k].coords[2]
                /\ visited[a].photo = PhotosPrefix \o stem(photos[k].path) \o DotJpg
        /\ \A k \in 1..(i - 1) :
               Matched(k) # None =>
                   \E a \in 1..Len(visited) : visited[a].name = Matched(k)[1].name

C2_Kept ==
    \A a \in 1..Len(visited) : a <= Len(visited') /\ visited'[a] = visited[a]

\* C2: in the resolver loop at most one VisitedEntry is emitted for a
\* settlement name, from the earliest photo in deduplicator output order
\* matched to that settlement; a later photo matched to it adds nothing, and
\* an emitted entry is never replaced or removed.
C2_FirstClaimWins == []C2_FirstClaims /\ [][C2_Kept]_vars

\* Two deduplicated photos matched to one settlement: one entry, the first's.
C2_Witness ==
    /\ pc = "done"
    /\ Len(photos) = 2
    /\ Matched(1) # None
    /\ Matched(2) = Matched(1)
    /\ Len(visited) = 1
    /\ visited[1].lat = photos[1].coords[1]

\* ------------------------------------------------------------------- C6

C6_OneSavePerEntry ==
    /\ Len(saves) = Len(visited)
    /\ \A a \in 1..Len(saves) :
        /\ PhotosPrefix \o saves[a].file = visited[a].photo
        /\ \E k \in 1..Len(photos) :
            /\ photos[k].path = saves[a].img
            /\ photos[k].coords = <<visited[a].lat, visited[a].lon>>
    /\ {f.file : f \in photos_out} = {saves[a].file : a \in 1..Len(saves)}

C6_DropFrame ==
    (/\ pc = "resolve"
     /\ i <= Len(photos)
     /\ pc' = "resolve"
     /\ IF Matched(i) = None THEN TRUE ELSE Matched(i)[1].name \in visited_names)
    => UNCHANGED <<visited_names, visited, saves, photos_out>>

\* C6: during build save_web_photo is called exactly once for each
\* VisitedEntry emitted and never for a dropped photo; a photo dropped for
\* want of a settlement within the radius, or because its settlement is
\* claimed, leaves the claimed names, the visited list and the written photo
\* files unchanged.
C6_SavesOnlyForEntries == []C6_OneSavePerEntry /\ [][C6_DropFrame]_vars

\* A build of two photos: the first claims a settlement, the second has none
\* within the radius, and one file was written.
C6_Witness ==
    /\ pc = "done"
    /\ Len(photos) = 2
    /\ Matched(1) # None
    /\ Matched(2) = None
    /\ Len(saves) = 1
    /\ Cardinality(photos_out) = 1

\* ------------------------------------------------------------------- C7

\* The request failed, or its response is malformed.
FetchFailed(resp) ==
    \/ resp.status # "ok"
    \/ \E k \in 1..Len(resp.elements) :
           resp.elements[k].name # "" /\ ~resp.elements[k].has_latlon

\* C7: when the gazetteer has to be fetched and the fetch fails, the run
\* aborts with the error raised to the caller and data.json, the CSV, the
\* output photos and the cache file are not written; the cache file is written
\* only after a fetch that succeeded; with a cache file and no refresh nothing
\* is fetched and the cache is not rewritten.
C7_FetchFailureWritesNothing ==
    /\ \A k \in 1..Len(fetches) :
           FetchFailed(fetches[k]) =>
               /\ pc = "aborted"
               /\ error # ""
               /\ written = {}
               /\ photos_out = {}
               /\ saves = <<>>
    /\ error # "" => pc = "aborted"
    /\ "settlements.json" \in written =>
           Len(fetches) = 1 /\ ~FetchFailed(fetches[1])
    /\ (cache_exists /\ ~refresh) =>
           fetches = <<>> /\ "settlements.json" \notin written
    /\ ((refresh \/ ~cache_exists) /\ pc \notin {"build", "settlements"}) =>
           /\ Len(fetches) = 1
           /\ ~FetchFailed(fetches[1]) => "settlements.json" \in written

\* A refresh with a cache file present and photos loaded: the response holds a
\* named element without coordinates, and the run aborted.
C7_Witness ==
    /\ pc = "aborted"
    /\ refresh /\ cache_exists
    /\ photos # <<>>
    /\ Len(fetches) = 1
    /\ fetches[1].status = "ok"
    /\ error = "KeyError"

\* ------------------------------------------------------------------ C10

\* C10: after build finishes distinct VisitedEntries have distinct photo
\* paths, and the file each entry's photo path names holds the image of the
\* photo that claimed the entry's settlement, also for input files that share
\* a stem.
C10_EntryPhotoIsClaimants ==
    pc = "done" =>
        /\ \A a, b \in 1..Len(visited) :
               a # b => visited[a].photo # visited[b].photo
        /\ \A a \in 1..Len(visited) :
               \E f \in photos_out :
                   /\ PhotosPrefix \o f.file = visited[a].photo
                   /\ f.img = Claimant(visited[a].name).path

====
